---- MODULE Spec2Model ----
(***************************************************************************)
(* ORTTrainer (orttraining/python/training/orttrainer.py): construction,   *)
(* the lazy ONNX export behind train_step, the eval_step and save_as_onnx  *)
(* entry points, and convert_model_loss_fn_to_onnx with its initializer    *)
(* rename pass.                                                            *)
(*                                                                         *)
(* Three specifications share the variables:                               *)
(*   Spec         one thread of control: __init__, then step/save calls    *)
(*   SpecRace     several callers inside train_step, one source line per   *)
(*                step                                                     *)
(*   SpecConvert  convert_model_loss_fn_to_onnx applied to bounded inputs  *)
(***************************************************************************)
EXTENDS Integers, Sequences, FiniteSets, TLC

VARIABLES
    phase,        \* "new" | "live" | "failed": has ORTTrainer(...) returned an object
    ctorArgs,     \* the arguments ORTTrainer(...) was called with
    ctorExc,      \* what ORTTrainer(...) raised ("none" when it returned)
    self,         \* the instance __dict__: attribute name -> value
    lastOp,       \* the last method called on the instance
    lastExc,      \* what that call raised ("none" when it returned)
    lastInput,    \* the positional data of the last step call
    trainCalls,   \* completed train_step calls
    evalCalls,    \* completed eval_step calls
    saveCalls,    \* completed save_as_onnx calls
    initCalls,    \* times control entered the export branch of _init_onnx_model_
    passLog,      \* postprocess passes invoked so far, in order
    pc,           \* SpecRace: caller -> source line it is about to execute
    tcalls,       \* SpecRace: caller -> completed train_step calls
    tentered,     \* SpecRace: caller -> times it entered the export branch
    texc,         \* SpecRace: caller -> what its last call raised
    cpc,          \* SpecConvert: "start" | "done"
    cargs,        \* SpecConvert: arguments of convert_model_loss_fn_to_onnx
    exported,     \* SpecConvert: the graph torch.onnx._export produced
    reconciled,   \* SpecConvert: the graph after the rename loops (line 248)
    ret,          \* SpecConvert: the returned graph
    cexc          \* SpecConvert: what the call raised

lifeVars == <<phase, ctorArgs, ctorExc, self, lastOp, lastExc, lastInput,
              trainCalls, evalCalls, saveCalls, initCalls>>
raceVars == <<pc, tcalls, tentered, texc>>
convVars == <<cpc, cargs, exported, reconciled, ret, cexc>>
vars == <<lifeVars, passLog, raceVars, convVars>>

(***************************************************************************)
(* Bounds                                                                  *)
(***************************************************************************)
MaxCalls == 2          \* calls of each method in Spec
NumCallers == 2        \* concurrent callers in SpecRace
MaxRaceCalls == 2      \* train_step calls per caller in SpecRace
MaxInits == 2          \* initializers of an exported graph
MaxNodes == 2          \* nodes of an exported graph
MaxNodeInputs == 1     \* inputs of a node

(***************************************************************************)
(* Python values.  None is the string "None"; a torch.nn.Module is "M1",   *)
(* onnx.ModelProto values are "G1" and "G2", "X" is any other object.      *)
(***************************************************************************)
None == "None"
TorchModules == {"M1"}
OnnxModels == {"G1", "G2"}
ModelValues == {None, "X"} \cup TorchModules \cup OnnxModels
\* loss_fn: None, callables of 1, 2 and 3 parameters, a non-callable
LossFnValues == {None, "f1", "f2", "f3", "nc"}
LossArity == [f \in {"f1", "f2", "f3"} |-> CASE f = "f1" -> 1 [] f = "f2" -> 2 [] f = "f3" -> 3]
ModelDescValues == {"dict", "notdict"}
OptimConfigValues == {"cfg", "notcfg"}
OptionsValues == {None, "opts", "notopts"}
\* *input of a step call: the tuple of positional tensors
StepInputs == {<<>>, <<"t1">>, <<"t1", "t2">>}

CtorArgSpace == [model : ModelValues, loss_fn : LossFnValues, model_desc : ModelDescValues,
                 optim_config : OptimConfigValues, options : OptionsValues]
NoArgs == [model |-> None, loss_fn |-> None, model_desc |-> "notdict",
           optim_config |-> "notcfg", options |-> None]

(***************************************************************************)
(* The instance dictionary                                                 *)
(***************************************************************************)
EmptyDict == [a \in {} |-> None]
SetAttr(d, a, v) == [x \in (DOMAIN d) \cup {a} |-> IF x = a THEN v ELSE d[x]]
HasAttr(d, a) == a \in DOMAIN d
\* The first name of `names` that is not bound in d, or "" when all are.
RECURSIVE FirstUnbound(_, _)
FirstUnbound(d, names) ==
    IF names = <<>> THEN ""
    ELSE IF ~HasAttr(d, Head(names)) THEN Head(names)
    ELSE FirstUnbound(d, Tail(names))

(***************************************************************************)
(* ORTTrainer.__init__                                                     *)
(*                                                                         *)
(* "dict", "cfg" and "opts" are a well-formed model_desc, an               *)
(* optim._OptimizerConfig and an ORTTrainerOptions: the constructors of    *)
(* lines 142-144 accept them.  The assertion of line 131 repeats the test   *)
(* of line 130 and cannot fail.                                            *)
(***************************************************************************)
\* __init__ without the assertion of line 136
__init__NoLossAssert(a) ==
    IF a.model = None THEN [self |-> EmptyDict, exc |-> "AssertionError:110"]
    ELSE IF a.model_desc # "dict" THEN [self |-> EmptyDict, exc |-> "AssertionError:111"]
    ELSE IF a.optim_config # "cfg" THEN [self |-> EmptyDict, exc |-> "AssertionError:112"]
    ELSE IF ~(a.loss_fn = None \/ (a.loss_fn \in DOMAIN LossArity /\ LossArity[a.loss_fn] = 2))
         THEN [self |-> EmptyDict, exc |-> "AssertionError:114"]
    ELSE IF ~(a.options = None \/ a.options = "opts")
         THEN [self |-> EmptyDict, exc |-> "AssertionError:116"]
    ELSE LET d0 == SetAttr(SetAttr(EmptyDict, "_torch_model", None), "_onnx_model", None)
             tail(d) == SetAttr(SetAttr(SetAttr(d, "model_desc", a.model_desc),
                                        "optim_config", a.optim_config),
                                "options", a.options)
         IN IF a.model \in TorchModules
            THEN [self |-> tail(SetAttr(SetAttr(d0, "_torch_model", a.model), "_loss_fn", a.loss_fn)),
                  exc |-> "none"]
            ELSE IF a.model \in OnnxModels
            THEN [self |-> tail(SetAttr(SetAttr(d0, "_onnx_model", a.model), "_loss_fn", None)),
                  exc |-> "none"]
            ELSE [self |-> EmptyDict, exc |-> "ValueError:140"]

\* __init__ binding an ONNX model to _torch_model at line 137
__init__WrongSlot(a) ==
    IF a.model = None THEN [self |-> EmptyDict, exc |-> "AssertionError:110"]
    ELSE IF a.model_desc # "dict" THEN [self |-> EmptyDict, exc |-> "AssertionError:111"]
    ELSE IF a.optim_config # "cfg" THEN [self |-> EmptyDict, exc |-> "AssertionError:112"]
    ELSE IF ~(a.loss_fn = None \/ (a.loss_fn \in DOMAIN LossArity /\ LossArity[a.loss_fn] = 2))
         THEN [self |-> EmptyDict, exc |-> "AssertionError:114"]
    ELSE IF ~(a.options = None \/ a.options = "opts")
         THEN [self |-> EmptyDict, exc |-> "AssertionError:116"]
    ELSE LET d0 == SetAttr(SetAttr(EmptyDict, "_torch_model", None), "_onnx_model", None)
             tail(d) == SetAttr(SetAttr(SetAttr(d, "model_desc", a.model_desc),
                                        "optim_config", a.optim_config),
                                "options", a.options)
         IN IF a.model \in TorchModules
            THEN [self |-> tail(SetAttr(SetAttr(d0, "_torch_model", a.model), "_loss_fn", a.loss_fn)),
                  exc |-> "none"]
            ELSE IF a.model \in OnnxModels
            THEN IF a.loss_fn # None
                 THEN [self |-> EmptyDict, exc |-> "AssertionError:136"]
                 ELSE [self |-> tail(SetAttr(SetAttr(d0, "_torch_model", a.model), "_loss_fn", None)),
                       exc |-> "none"]
            ELSE [self |-> EmptyDict, exc |-> "ValueError:140"]

__init__(a) ==
    IF a.model = None THEN [self |-> EmptyDict, exc |-> "AssertionError:110"]
    ELSE IF a.model_desc # "dict" THEN [self |-> EmptyDict, exc |-> "AssertionError:111"]
    ELSE IF a.optim_config # "cfg" THEN [self |-> EmptyDict, exc |-> "AssertionError:112"]
    ELSE IF ~(a.loss_fn = None \/ (a.loss_fn \in DOMAIN LossArity /\ LossArity[a.loss_fn] = 2))
         THEN [self |-> EmptyDict, exc |-> "AssertionError:114"]
    ELSE IF ~(a.options = None \/ a.options = "opts")
         THEN [self |-> EmptyDict, exc |-> "AssertionError:116"]
    ELSE LET d0 == SetAttr(SetAttr(EmptyDict, "_torch_model", None), "_onnx_model", None)
             tail(d) == SetAttr(SetAttr(SetAttr(d, "model_desc", a.model_desc),
                                        "optim_config", a.optim_config),
                                "options", a.options)
         IN IF a.model \in TorchModules
            THEN [self |-> tail(SetAttr(SetAttr(d0, "_torch_model", a.model), "_loss_fn", a.loss_fn)),
                  exc |-> "none"]
            ELSE IF a.model \in OnnxModels
            THEN IF a.loss_fn # None
                 THEN [self |-> EmptyDict, exc |-> "AssertionError:136"]
                 ELSE [self |-> tail(SetAttr(SetAttr(d0, "_onnx_model", a.model), "_loss_fn", None)),
                       exc |-> "none"]
            ELSE [self |-> EmptyDict, exc |-> "ValueError:140"]

(***************************************************************************)
(* ORTTrainer._init_onnx_model_                                            *)
(*                                                                         *)
(* Line 268 reads self.torch_model_, which no method of the class binds    *)
(* (__init__ binds _torch_model): AttributeError.  Line 271 evaluates its  *)
(* arguments left to right: self._torch_model, self.loss_fn (__init__      *)
(* binds _loss_fn), self.model_desc, then the name `inputs`, which is      *)
(* neither a parameter (the parameter is `input`) nor a module global:     *)
(* NameError.  Nothing after the argument list of line 271 is executed,    *)
(* so neither the assignment of line 271 nor lines 274-280 ever run.       *)
(***************************************************************************)
Line268Reads == <<"torch_model_">>
Line271Reads == <<"_torch_model", "loss_fn", "model_desc">>

_init_onnx_model_(d, input) ==
    IF d["_onnx_model"] # None
    THEN [self |-> d, exc |-> "none", entered |-> FALSE]
    ELSE IF d["_torch_model"] # None
    THEN IF FirstUnbound(d, Line268Reads) # ""
         THEN [self |-> d, exc |-> "AttributeError:268", entered |-> TRUE]
         ELSE IF FirstUnbound(d, Line271Reads) # ""
         THEN [self |-> d, exc |-> "AttributeError:271", entered |-> TRUE]
         ELSE [self |-> d, exc |-> "NameError:271", entered |-> TRUE]
    ELSE [self |-> d, exc |-> "none", entered |-> FALSE]

(***************************************************************************)
(* ORTTrainer.train_step, eval_step, save_as_onnx                          *)
(***************************************************************************)
train_step(d, input) ==
    IF d["_onnx_model"] = None
    THEN _init_onnx_model_(d, input)
    ELSE [self |-> d, exc |-> "none", entered |-> FALSE]

\* The body is `pass`.
eval_step(d, input) == [self |-> d, exc |-> "none", entered |-> FALSE]

\* The body is `pass`.
save_as_onnx(d, path) == [self |-> d, exc |-> "none", entered |-> FALSE]

(***************************************************************************)
(* Spec: one thread of control                                             *)
(***************************************************************************)
raceIdle == /\ pc = [t \in 1..NumCallers |-> "idle"]
            /\ tcalls = [t \in 1..NumCallers |-> 0]
            /\ tentered = [t \in 1..NumCallers |-> 0]
            /\ texc = [t \in 1..NumCallers |-> "none"]

NoGraph == [isNone |-> TRUE, initializer |-> <<>>, node |-> <<>>, passes |-> <<>>]
NoConvArgs == [inputs |-> "tensor", enable |-> FALSE, params |-> {}]
convIdle == /\ cpc = "off"
            /\ cargs = NoConvArgs
            /\ exported = NoGraph
            /\ reconciled = NoGraph
            /\ ret = NoGraph
            /\ cexc = "none"

Init == /\ phase = "new"
        /\ ctorArgs = NoArgs
        /\ ctorExc = "none"
        /\ self = EmptyDict
        /\ lastOp = "none"
        /\ lastExc = "none"
        /\ lastInput = <<>>
        /\ trainCalls = 0
        /\ evalCalls = 0
        /\ saveCalls = 0
        /\ initCalls = 0
        /\ passLog = <<>>
        /\ raceIdle
        /\ convIdle

\* ORTTrainer(model, model_desc, optim_config, loss_fn, options)
Construct == /\ phase = "new"
             /\ \E a \in CtorArgSpace :
                   LET r == __init__(a) IN
                   /\ ctorArgs' = a
                   /\ ctorExc' = r.exc
                   /\ self' = r.self
                   /\ phase' = IF r.exc = "none" THEN "live" ELSE "failed"
             /\ UNCHANGED <<lastOp, lastExc, lastInput, trainCalls, evalCalls, saveCalls,
                            initCalls, passLog, raceVars, convVars>>

TrainStep == /\ phase = "live"
             /\ trainCalls < MaxCalls
             /\ \E input \in StepInputs :
                   LET r == train_step(self, input) IN
                   /\ self' = r.self
                   /\ lastExc' = r.exc
                   /\ lastInput' = input
                   /\ initCalls' = initCalls + (IF r.entered THEN 1 ELSE 0)
             /\ lastOp' = "train_step"
             /\ trainCalls' = trainCalls + 1
             /\ UNCHANGED <<phase, ctorArgs, ctorExc, evalCalls, saveCalls, passLog,
                            raceVars, convVars>>

EvalStep == /\ phase = "live"
            /\ evalCalls < MaxCalls
            /\ \E input \in StepInputs :
                  LET r == eval_step(self, input) IN
                  /\ self' = r.self
                  /\ lastExc' = r.exc
                  /\ lastInput' = input
                  /\ initCalls' = initCalls + (IF r.entered THEN 1 ELSE 0)
            /\ lastOp' = "eval_step"
            /\ evalCalls' = evalCalls + 1
            /\ UNCHANGED <<phase, ctorArgs, ctorExc, trainCalls, saveCalls, passLog,
                           raceVars, convVars>>

SaveAsOnnx == /\ phase = "live"
              /\ saveCalls < MaxCalls
              /\ LET r == save_as_onnx(self, "path") IN
                  /\ self' = r.self
                  /\ lastExc' = r.exc
                  /\ initCalls' = initCalls + (IF r.entered THEN 1 ELSE 0)
              /\ lastOp' = "save_as_onnx"
              /\ saveCalls' = saveCalls + 1
              /\ UNCHANGED <<phase, ctorArgs, ctorExc, lastInput, trainCalls, evalCalls,
                             passLog, raceVars, convVars>>

Next == Construct \/ TrainStep \/ EvalStep \/ SaveAsOnnx

Spec == Init /\ [][Next]_vars

(***************************************************************************)
(* SpecRace: callers inside train_step, one source line per step.  The     *)
(* methods take no lock, so callers interleave between any two lines.      *)
(***************************************************************************)
Callers == 1..NumCallers

InitRace == /\ phase = "live"
            /\ \E a \in CtorArgSpace :
                  /\ __init__(a).exc = "none"
                  /\ ctorArgs = a
                  /\ self = __init__(a).self
            /\ ctorExc = "none"
            /\ lastOp = "none"
            /\ lastExc = "none"
            /\ lastInput = <<>>
            /\ trainCalls = 0
            /\ evalCalls = 0
            /\ saveCalls = 0
            /\ initCalls = 0
            /\ passLog = <<>>
            /\ raceIdle
            /\ convIdle

raceFrame == UNCHANGED <<phase, ctorArgs, ctorExc, lastOp, lastInput, evalCalls, saveCalls,
                         passLog, convVars>>

\* a caller's train_step returns or raises
RaceReturn(t, e) == /\ pc' = [pc EXCEPT ![t] = "idle"]
                    /\ texc' = [texc EXCEPT ![t] = e]
                    /\ tcalls' = [tcalls EXCEPT ![t] = @ + 1]
                    /\ trainCalls' = trainCalls + 1
                    /\ lastExc' = e

\* a caller enters train_step
RaceCall(t) == /\ pc[t] = "idle"
               /\ tcalls[t] < MaxRaceCalls
               /\ pc' = [pc EXCEPT ![t] = "l297"]
               /\ UNCHANGED <<self, lastExc, trainCalls, initCalls, tcalls, tentered, texc>>
               /\ raceFrame

\* line 297: if self._onnx_model is None
Race297(t) == /\ pc[t] = "l297"
              /\ IF self["_onnx_model"] = None
                 THEN /\ pc' = [pc EXCEPT ![t] = "l264"]
                      /\ UNCHANGED <<lastExc, trainCalls, tcalls, texc>>
                 ELSE RaceReturn(t, "none")
              /\ UNCHANGED <<self, initCalls, tentered>>
              /\ raceFrame

\* line 264: if self._onnx_model is not None: return
Race264(t) == /\ pc[t] = "l264"
              /\ IF self["_onnx_model"] # None
                 THEN RaceReturn(t, "none")
                 ELSE /\ pc' = [pc EXCEPT ![t] = "l267"]
                      /\ UNCHANGED <<lastExc, trainCalls, tcalls, texc>>
              /\ UNCHANGED <<self, initCalls, tentered>>
              /\ raceFrame

\* line 267: if self._torch_model is not None
Race267(t) == /\ pc[t] = "l267"
              /\ IF self["_torch_model"] # None
                 THEN /\ pc' = [pc EXCEPT ![t] = "l268"]
                      /\ tentered' = [tentered EXCEPT ![t] = @ + 1]
                      /\ initCalls' = initCalls + 1
                      /\ UNCHANGED <<lastExc, trainCalls, tcalls, texc>>
                 ELSE /\ RaceReturn(t, "none")
                      /\ UNCHANGED <<tentered, initCalls>>
              /\ UNCHANGED self
              /\ raceFrame

\* lines 268-271: the export branch, which raises before it assigns
Race268(t) == /\ pc[t] = "l268"
              /\ LET r == _init_onnx_model_(self, <<>>) IN
                 /\ self' = r.self
                 /\ RaceReturn(t, r.exc)
              /\ UNCHANGED <<initCalls, tentered>>
              /\ raceFrame

NextRace == \E t \in Callers :
               RaceCall(t) \/ Race297(t) \/ Race264(t) \/ Race267(t) \/ Race268(t)

SpecRace == InitRace /\ [][NextRace]_vars

(***************************************************************************)
(* convert_model_loss_fn_to_onnx                                           *)
(*                                                                         *)
(* A name is the tuple of its characters.                                  *)
(***************************************************************************)
ModelPrefix == <<"m", "o", "d", "e", "l", "_", ".">>
startswith(s, p) == Len(s) >= Len(p) /\ SubSeq(s, 1, Len(p)) = p
\* n.name[len('model_.'):]
StripModelPrefix(s) == SubSeq(s, Len(ModelPrefix) + 1, Len(s))

NameW == <<"w">>
NameB == <<"b">>
TensorNames == {NameW, ModelPrefix \o NameW, ModelPrefix \o NameB}
ParamNames == {NameW, NameB}

SeqsUpTo(S, n) == UNION {[1..k -> S] : k \in 0..n}
Range(f) == {f[i] : i \in DOMAIN f}

IsInjective(f) == \A i, j \in DOMAIN f : f[i] = f[j] => i = j

\* what torch.onnx._export can hand back (initializer names are unique in a graph)
ExportedGraphs ==
    {[isNone |-> FALSE, initializer |-> i, node |-> n, passes |-> <<>>] :
        i \in {q \in SeqsUpTo(TensorNames, MaxInits) : IsInjective(q)},
        n \in SeqsUpTo(SeqsUpTo(TensorNames, MaxNodeInputs), MaxNodes)}

\* "list" stands for a list or a tuple (one isinstance test, line 195)
InputKinds == {"tensor", "dict", "dict_missing_key", "list", "other"}
ConvArgSpace == [inputs : InputKinds, enable : BOOLEAN, params : SUBSET ParamNames]

\* lines 191-198: gather the sample inputs
GatherSamples(inputs) ==
    IF inputs = "dict" THEN "none"
    ELSE IF inputs = "dict_missing_key" THEN "KeyError:194"
    ELSE IF inputs \in {"tensor", "list"} THEN "none"
    ELSE "RuntimeError:198"

DictSet(d, k, v) == [x \in (DOMAIN d) \cup {k} |-> IF x = k THEN v ELSE d[x]]

\* lines 240-244: rename the initializers, building replace_name_dict
RECURSIVE RenameInitializers(_, _, _)
RenameInitializers(inits, dict, i) ==
    IF i > Len(inits) THEN [initializer |-> inits, replace_name_dict |-> dict]
    ELSE IF startswith(inits[i], ModelPrefix)
         THEN RenameInitializers([inits EXCEPT ![i] = StripModelPrefix(inits[i])],
                                 DictSet(dict, inits[i], StripModelPrefix(inits[i])), i + 1)
         ELSE RenameInitializers(inits, dict, i + 1)

\* the inner loop leaving every input as it is
RewriteNodeInputsSkipped(input, dict) == input

\* lines 246-248: rewrite the inputs of one node
RewriteNodeInputs(input, dict) ==
    [i \in 1..Len(input) |-> IF input[i] \in DOMAIN dict THEN dict[input[i]] ELSE input[i]]

\* line 245: visit the nodes (order[k] is the k-th node visited)
RECURSIVE RewriteNodes(_, _, _, _)
RewriteNodes(nodes, dict, order, k) ==
    IF k > Len(order) THEN nodes
    ELSE RewriteNodes([nodes EXCEPT ![order[k]] = RewriteNodeInputs(nodes[order[k]], dict)],
                      dict, order, k + 1)

\* lines 239-248
Reconcile(g, order) ==
    LET r == RenameInitializers(g.initializer, [x \in {} |-> <<>>], 1) IN
    [g EXCEPT !.initializer = r.initializer,
              !.node = RewriteNodes(g.node, r.replace_name_dict, order, 1)]

\* the assertion demanding equal name sets
ParametersPresentExact(params, g) == params = Range(g.initializer)

\* lines 252-256: the assertion on the named parameters
ParametersPresent(params, g) == params \subseteq Range(g.initializer)

\* postprocess.run_postprocess: a graph rewrite, recorded on the graph
run_postprocess(g) == [g EXCEPT !.passes = Append(@, "internal")]

\* env: "ok", or the place where tracing raised; traced: the exporter's graph
convert_model_loss_fn_to_onnx(a, env, traced, order) ==
    IF GatherSamples(a.inputs) # "none"
    THEN [ret |-> NoGraph, exc |-> GatherSamples(a.inputs), exported |-> NoGraph, reconciled |-> NoGraph]
    ELSE IF env = "fail207"
    THEN [ret |-> NoGraph, exc |-> "Exception:207", exported |-> NoGraph, reconciled |-> NoGraph]
    ELSE IF env = "fail227"
    THEN [ret |-> NoGraph, exc |-> "Exception:227", exported |-> NoGraph, reconciled |-> NoGraph]
    ELSE LET g == Reconcile(traced, order) IN
         IF ~ParametersPresent(a.params, g)
         THEN [ret |-> NoGraph, exc |-> "AssertionError:253", exported |-> traced, reconciled |-> g]
         ELSE IF a.enable
         THEN [ret |-> run_postprocess(g), exc |-> "none", exported |-> traced, reconciled |-> g]
         ELSE [ret |-> g, exc |-> "none", exported |-> traced, reconciled |-> g]

InitConvert == /\ phase = "new"
               /\ ctorArgs = NoArgs
               /\ ctorExc = "none"
               /\ self = EmptyDict
               /\ lastOp = "none"
               /\ lastExc = "none"
               /\ lastInput = <<>>
               /\ trainCalls = 0
               /\ evalCalls = 0
               /\ saveCalls = 0
               /\ initCalls = 0
               /\ passLog = <<>>
               /\ raceIdle
               /\ cpc = "start"
               /\ cargs \in ConvArgSpace
               /\ exported = NoGraph
               /\ reconciled = NoGraph
               /\ ret = NoGraph
               /\ cexc = "none"

convResult(r) == /\ cpc' = "done"
                 /\ ret' = r.ret
                 /\ cexc' = r.exc
                 /\ exported' = r.exported
                 /\ reconciled' = r.reconciled
                 /\ passLog' = passLog \o r.ret.passes
                 /\ UNCHANGED <<cargs, lifeVars, raceVars>>

Convert == /\ cpc = "start"
           /\ IF GatherSamples(cargs.inputs) # "none"
              THEN convResult(convert_model_loss_fn_to_onnx(cargs, "ok", NoGraph, <<>>))
              ELSE \E env \in {"ok", "fail207", "fail227"} :
                     IF env # "ok"
                     THEN convResult(convert_model_loss_fn_to_onnx(cargs, env, NoGraph, <<>>))
                     ELSE \E traced \in ExportedGraphs :
                            convResult(convert_model_loss_fn_to_onnx(cargs, env, traced,
                                           [k \in 1..Len(traced.node) |-> k]))

NextConvert == Convert

SpecConvert == InitConvert /\ [][NextConvert]_vars

(***************************************************************************)
(* Properties                                                              *)
(***************************************************************************)
Live == phase = "live"
Native == Live /\ ctorArgs.model \in TorchModules
Precomputed == Live /\ ctorArgs.model \in OnnxModels
\* the lifecycle state read by the guards of lines 264 and 297
Built == self["_onnx_model"] # None
StepOps == {"train_step", "eval_step"}

\* C1: on a trainer built from a native module, two or more sequential
\* train_step calls run the export routine exactly once, and the calls after
\* the first find the lifecycle Built.
C1_ExportOnce ==
    (Native /\ trainCalls >= 2) => (initCalls = 1 /\ Built)

\* C2: the first step call (train_step or eval_step) on an Uninitialized
\* native trainer runs the export, and leaves the lifecycle Built when the
\* export raised nothing.
C2_LazyBuild ==
    (Native /\ lastOp \in StepOps /\ trainCalls + evalCalls = 1)
        => (initCalls = 1 /\ (lastExc = "none" => Built))

\* C3: a step call whose export fails leaves the lifecycle Uninitialized with
\* the instance unchanged, and the next step call runs the export again.
C3_FailureRetried ==
    [][(Native' /\ lastOp' \in StepOps /\ trainCalls' + evalCalls' > trainCalls + evalCalls)
        => /\ (lastExc' # "none" => (self' = self /\ ~Built'))
           /\ ((Native /\ lastOp \in StepOps /\ lastExc # "none" /\ ~Built)
                  => initCalls' = initCalls + 1)]_vars

\* C4: save_as_onnx while the lifecycle is Uninitialized fails with NotBuilt
\* and changes nothing; once Built it succeeds.
C4_SaveLifecycle ==
    (Live /\ lastOp = "save_as_onnx")
        => IF Built THEN lastExc = "none" ELSE lastExc = "NotBuilt"

\* C5: of the callers racing on the first train_step of a native trainer, at
\* most one is inside the export branch at any time.
C5_SingleExporter ==
    Native => Cardinality({t \in Callers : tcalls[t] = 0 /\ pc[t] = "l268"}) <= 1

\* C6: construction succeeds for (module, no loss_fn), (module, two-argument
\* loss_fn) and (graph, no loss_fn) and then exactly one of _torch_model and
\* _onnx_model is populated; (graph, loss_fn) is rejected by the assertion of
\* line 136.
C6_Binding ==
    phase # "new" =>
        LET a == ctorArgs
            othersValid == /\ a.model_desc = "dict"
                           /\ a.optim_config = "cfg"
                           /\ a.options \in {None, "opts"}
        IN /\ (othersValid /\ a.model \in TorchModules /\ a.loss_fn \in {None, "f2"})
                 => (ctorExc = "none" /\ Live)
           /\ (othersValid /\ a.model \in OnnxModels /\ a.loss_fn = None)
                 => (ctorExc = "none" /\ Live)
           /\ Live => ((self["_torch_model"] # None) # (self["_onnx_model"] # None))
           /\ (othersValid /\ a.model \in OnnxModels /\ a.loss_fn = "f2")
                 => (ctorExc = "AssertionError:136" /\ phase = "failed")
           /\ (a.model \in OnnxModels /\ a.loss_fn # None) => phase = "failed"

C6_Witness ==
    /\ phase = "failed"
    /\ ctorArgs.model \in OnnxModels
    /\ ctorArgs.loss_fn = "f2"
    /\ ctorExc = "AssertionError:136"

\* C7: on a trainer built from a precomputed graph no step call enters the
\* export branch or runs a postprocess pass, and _onnx_model stays the
\* supplied graph.
C7_PrecomputedBypass ==
    Precomputed => /\ initCalls = 0
                   /\ passLog = <<>>
                   /\ self["_onnx_model"] = ctorArgs.model
                   /\ self["_torch_model"] = None

C7_Witness ==
    /\ Precomputed
    /\ trainCalls = MaxCalls
    /\ evalCalls >= 1
    /\ lastOp = "train_step"

\* s = 'model_.' + t for some t
HasModelPrefix(s) == \E k \in 1..(Len(s) + 1) : s = ModelPrefix \o SubSeq(s, k, Len(s))
Exported == cpc = "done" /\ ~exported.isNone

\* C8: after the rename loops every initializer named 'model_.' + t is named
\* t, every other initializer keeps its name, every node input that named a
\* renamed initializer names its new name and every other node input is
\* unchanged, whatever the order in which the nodes are visited.
C8_Reconcile ==
    Exported =>
        /\ Len(reconciled.initializer) = Len(exported.initializer)
        /\ \A i \in DOMAIN exported.initializer :
              IF HasModelPrefix(exported.initializer[i])
              THEN ModelPrefix \o reconciled.initializer[i] = exported.initializer[i]
              ELSE reconciled.initializer[i] = exported.initializer[i]
        /\ Len(reconciled.node) = Len(exported.node)
        /\ \A k \in DOMAIN exported.node :
              /\ Len(reconciled.node[k]) = Len(exported.node[k])
              /\ \A j \in DOMAIN exported.node[k] :
                    IF /\ exported.node[k][j] \in Range(exported.initializer)
                       /\ HasModelPrefix(exported.node[k][j])
                    THEN ModelPrefix \o reconciled.node[k][j] = exported.node[k][j]
                    ELSE reconciled.node[k][j] = exported.node[k][j]
        /\ \A order \in Permutations(1..Len(exported.node)) :
              Reconcile(exported, order) = reconciled

C8_Witness ==
    /\ Exported
    /\ Range(exported.initializer) = {ModelPrefix \o NameW, ModelPrefix \o NameB}
    /\ Range(reconciled.initializer) = {NameW, NameB}
    /\ Len(exported.node) = 2
    /\ exported.node[1] = <<ModelPrefix \o NameW>>
    /\ exported.node[2] = <<ModelPrefix \o NameB>>
    /\ reconciled.node = <<(<<NameW>>), (<<NameB>>)>>

\* C9: once the graph is exported and renamed, the call raises the assertion
\* of line 253 and returns no graph exactly when some named parameter is not
\* an initializer name; otherwise it returns the graph, extra initializers
\* included.
C9_ParameterCheck ==
    Exported =>
        /\ (cexc = "AssertionError:253")
              <=> (\E q \in cargs.params : q \notin Range(reconciled.initializer))
        /\ cexc = "AssertionError:253" => ret.isNone
        /\ cexc # "AssertionError:253"
              => /\ cexc = "none"
                 /\ ~ret.isNone
                 /\ ret.initializer = reconciled.initializer

C9_Witness ==
    /\ Exported
    /\ cexc = "none"
    /\ cargs.params = {NameW}
    /\ Range(reconciled.initializer) = {NameW, NameB}

\* C10: after a train_step on a native trainer the postprocess passes have
\* run once each, the internal pass before the optional user pass, and the
\* lifecycle holds the resulting graph.
C10_PassOrder ==
    (Native /\ trainCalls >= 1)
        => (passLog \in {<<"internal">>, <<"internal", "user">>} /\ Built)

====
